---- MODULE Spec2Model ----
(***************************************************************************)
(* Backtracking Sudoku solver of godoku (src/main.go): the board, the     *)
(* SolverState bitmask index built by NewSolverState, and the recursive   *)
(* SolveBacktrack, unfolded into an explicit call stack.                   *)
(***************************************************************************)
EXTENDS Integers, Sequences, FiniteSets, TLC

(* ---------------- program constants (src/main.go:26-30) ---------------- *)
boardSize == 81
rowLength == 9
colLength == 9
\* capacity of csvLogChan: make(chan []string, 100)
chanCap == 100

(* ---------------- bounds of the checked input family ------------------- *)
\* number of entries of HoleOrder that may be blanked in the base grid
MaxHoles == 14
\* number of entries of EditOrder whose clue may be overwritten
MaxEdits == 2
\* number of digit relabelings of the base grid given as complete clue grids
MaxRelabel == 3
\* largest number of boards in the input file
MaxBoards == 104

\* A complete valid grid; the clue grids checked are this grid with a prefix
\* of HoleOrder blanked and one cell of EditOrder overwritten by any of 0..9.
BaseGrid ==
  << 1,2,3,4,5,6,7,8,9,
     4,5,6,7,8,9,1,2,3,
     7,8,9,1,2,3,4,5,6,
     2,1,4,3,6,5,8,9,7,
     3,6,5,8,9,7,2,1,4,
     8,9,7,2,1,4,3,6,5,
     5,3,1,6,4,2,9,7,8,
     6,4,2,9,7,8,5,3,1,
     9,7,8,5,3,1,6,4,2 >>

HoleOrder == << 66, 72, 61, 48, 63, 54, 56, 71, 60, 57, 55, 78, 53, 69, 74, 50 >>
EditOrder == << 63, 0, 26, 15 >>

ClueGrid(n, e, v) ==
  [i \in 0..(boardSize - 1) |->
     IF i = EditOrder[e] THEN v
     ELSE IF i \in {HoleOrder[j] : j \in 1..n} THEN 0
     ELSE BaseGrid[i + 1]]

ClueGrids ==
  {ClueGrid(n, e, v) : n \in 0..MaxHoles, e \in 1..MaxEdits, v \in 0..9}

\* the base grid with every digit d replaced by d + k (wrapping 9 to 1):
\* another complete valid grid
Relabel(k) ==
  [i \in 0..(boardSize - 1) |-> ((BaseGrid[i + 1] - 1 + k) % 9) + 1]

SolvedGrids == {Relabel(k) : k \in 1..MaxRelabel}

(* ---------------- uint16 bit operations -------------------------------- *)
RECURSIVE BitAnd(_, _)
BitAnd(x, y) ==
  IF x = 0 \/ y = 0 THEN 0
  ELSE (x % 2) * (y % 2) + 2 * BitAnd(x \div 2, y \div 2)

RECURSIVE BitOr(_, _)
BitOr(x, y) ==
  IF x = 0 THEN y
  ELSE IF y = 0 THEN x
  ELSE (IF x % 2 = 1 \/ y % 2 = 1 THEN 1 ELSE 0) + 2 * BitOr(x \div 2, y \div 2)

\* ^bit on a uint16
BitNot(x) == 65535 - x

\* uint16(1 << num)
Bit(num) == (2 ^ num) % 65536

\* (mask & bit) == 0
BitClear(mask, bit) == BitAnd(mask, bit) = 0

\* mask |= bit
SetBit(mask, bit) == BitOr(mask, bit)

ClearBitKept(mask, bit) == mask

ClearBitNoInvert(mask, bit) == BitAnd(mask, bit)

\* mask &= ^bit
ClearBit(mask, bit) == BitAnd(mask, BitNot(bit))

\* (r/3)*3 + (c/3)
SquareOf(r, c) == (r \div 3) * 3 + (c \div 3)

(* ---------------- NewSolverState (src/main.go:51-80) ------------------- *)
\* a constructor that warns about a duplicate clue and leaves the masks alone
PopulateCellSkipsDuplicate(cells, r, c, st) ==
  LET idx == r * rowLength + c
      num == cells[idx]
      squareIdx == SquareOf(r, c)
      bit == Bit(num)
      dup == \/ ~BitClear(st.RowsUsed[r], bit)
             \/ ~BitClear(st.ColsUsed[c], bit)
             \/ ~BitClear(st.SquaresUsed[squareIdx], bit)
  IN IF num = 0 THEN st
     ELSE IF dup
          THEN [st EXCEPT !.warnings =
                  Append(@, [number |-> num, row |-> r, col |-> c])]
          ELSE [st EXCEPT !.RowsUsed[r] = SetBit(@, bit),
                          !.ColsUsed[c] = SetBit(@, bit),
                          !.SquaresUsed[squareIdx] = SetBit(@, bit)]

\* The body of the loops "for r := range 9 { for c := range 9" for cell (r, c):
\* st holds the three masks and the warnings logged so far.
PopulateCell(cells, r, c, st) ==
  LET idx == r * rowLength + c
      num == cells[idx]
      squareIdx == SquareOf(r, c)
      bit == Bit(num)
      dup == \/ ~BitClear(st.RowsUsed[r], bit)
             \/ ~BitClear(st.ColsUsed[c], bit)
             \/ ~BitClear(st.SquaresUsed[squareIdx], bit)
  IN IF num # 0
     THEN [RowsUsed    |-> [st.RowsUsed EXCEPT ![r] = SetBit(@, bit)],
           ColsUsed    |-> [st.ColsUsed EXCEPT ![c] = SetBit(@, bit)],
           SquaresUsed |-> [st.SquaresUsed EXCEPT ![squareIdx] = SetBit(@, bit)],
           warnings    |-> IF dup
                           THEN Append(st.warnings, [number |-> num, row |-> r, col |-> c])
                           ELSE st.warnings]
     ELSE st

(* ---------------- IsValid (src/main.go:83-93) -------------------------- *)
\* ss holds the three masks, g is a Guess{Row, Col, Value}
IsValid(ss, g) ==
  IF g.Value < 1 \/ g.Value > 9
  THEN FALSE
  ELSE LET squareIdx == (g.Row \div 3) * 3 + (g.Col \div 3)
           bit == Bit(g.Value)
       IN /\ BitClear(ss.RowsUsed[g.Row], bit)
          /\ BitClear(ss.ColsUsed[g.Col], bit)
          /\ BitClear(ss.SquaresUsed[squareIdx], bit)

(* ---------------- state ------------------------------------------------ *)
VARIABLES
  input,        \* the clue grid handed to NewSolverState (history)
  built,        \* the masks NewSolverState returned (history)
  ctor,         \* loop variables r, c of NewSolverState
  tally,        \* number of invocations, placements and undos so far (history)
  last,         \* name of the step taken last (history)
  Cells,        \* Board.Cells
  Guesses,      \* Board.Guesses
  RowsUsed,     \* SolverState.RowsUsed
  ColsUsed,     \* SolverState.ColsUsed
  SquaresUsed,  \* SolverState.SquaresUsed
  warnings,     \* the "Initial board invalid" warnings logged by NewSolverState
  stack,        \* active SolveBacktrack invocations that found an empty cell
  startIdx,     \* argument of the invocation being entered
  result,       \* value returned by the invocation that returned last
  pc,           \* "new", "call", "loop", "ret" or "done"
  nBoards,      \* len(boards) in main
  boardIdx,     \* loop variable i of main's solving loop
  mainPc,       \* main is at: "loop", "send", "wait", "closefile" or "exit"
  csvLogChan,   \* the rows buffered in the channel, oldest first
  chanClosed,   \* close(csvLogChan) has been executed
  csvWg,        \* counter of the WaitGroup
  loggerPc,     \* csvLoggerGoroutine is at: "range", "write" or "done"
  loggerRow,    \* variable row of csvLoggerGoroutine
  csvFile,      \* "open" or "closed"
  sent,         \* the rows main has sent, in order (history)
  written       \* the rows written to the CSV file after the header, in order

solving == << input, built, ctor, tally, last, Cells, Guesses, RowsUsed, ColsUsed, SquaresUsed, warnings,
              stack, startIdx, result, pc >>

logging == << nBoards, boardIdx, mainPc, csvLogChan, chanClosed, csvWg, loggerPc,
              loggerRow, csvFile, sent, written >>

vars == << solving, logging >>

board == << Cells, Guesses >>
masks == << RowsUsed, ColsUsed, SquaresUsed >>

\* zero-initialized RowsUsed / ColsUsed / SquaresUsed
ZeroRows == [r \in 0..(rowLength - 1) |-> 0]
ZeroCols == [c \in 0..(colLength - 1) |-> 0]
ZeroSquares == [s \in 0..((rowLength \div 3) * (colLength \div 3) - 1) |-> 0]

\* main, line 371: a deserialized board (line 174, Guesses all zero), one of
\* grids, is handed to NewSolverState, which is at line 53, its masks
\* zero-initialized
StartOn(grids) ==
  /\ input \in grids
  /\ Cells = input
  /\ Guesses = [i \in 0..(boardSize - 1) |-> 0]
  /\ RowsUsed = ZeroRows
  /\ ColsUsed = ZeroCols
  /\ SquaresUsed = ZeroSquares
  /\ built = << ZeroRows, ZeroCols, ZeroSquares >>
  /\ warnings = << >>
  /\ ctor = [r |-> 0, c |-> 0]
  /\ tally = [calls |-> 0, placed |-> 0, undone |-> 0]
  /\ last = "main"
  /\ stack = << >>
  /\ startIdx = 0
  /\ result = FALSE
  /\ pc = "new"

\* main, lines 316-321 and 355-359: the channel is made, the WaitGroup counts
\* the logger goroutine, which is started; one of counts boards was read and
\* the solving loop is at its first board
LoggerStarted(counts) ==
  /\ nBoards \in counts
  /\ boardIdx = 0
  /\ mainPc = "loop"
  /\ csvLogChan = << >>
  /\ chanClosed = FALSE
  /\ csvWg = 1
  /\ loggerPc = "range"
  /\ loggerRow = 0
  /\ csvFile = "open"
  /\ sent = << >>
  /\ written = << >>

Init == StartOn(ClueGrids \cup SolvedGrids) /\ LoggerStarted({1})

\* the board of 81 empty cells
EmptyGrid == [i \in 0..(boardSize - 1) |-> 0]

InitEmpty == StartOn({EmptyGrid}) /\ LoggerStarted({1})

\* lines 56-78: one iteration of the inner loop of NewSolverState
NewSolverStateCell ==
  /\ pc = "new"
  /\ ctor.r < 9
  /\ LET st == PopulateCell(Cells, ctor.r, ctor.c,
                            [RowsUsed |-> RowsUsed, ColsUsed |-> ColsUsed,
                             SquaresUsed |-> SquaresUsed, warnings |-> warnings])
     IN /\ RowsUsed' = st.RowsUsed
        /\ ColsUsed' = st.ColsUsed
        /\ SquaresUsed' = st.SquaresUsed
        /\ warnings' = st.warnings
  /\ ctor' = IF ctor.c + 1 < 9 THEN [ctor EXCEPT !.c = @ + 1]
                               ELSE [r |-> ctor.r + 1, c |-> 0]
  /\ last' = "newcell"
  /\ UNCHANGED << logging, input, built, tally, board, stack, startIdx, result, pc >>

\* line 79 and main line 372: the state is returned and SolveBacktrack(state, 0) called
NewSolverStateReturn ==
  /\ pc = "new"
  /\ ctor.r = 9
  /\ built' = masks
  /\ startIdx' = 0
  /\ pc' = "call"
  /\ last' = "newreturn"
  /\ UNCHANGED << logging, input, ctor, tally, board, masks, warnings, stack, result >>

(* ---------------- SolveBacktrack (src/main.go:194-239) ----------------- *)
IsEmptyIgnoringClues(cells, guesses, i) == guesses[i] = 0

\* state.Board.Cells[i] == 0 && state.Board.Guesses[i] == 0
IsEmpty(cells, guesses, i) == cells[i] = 0 /\ guesses[i] = 0

\* the scan "for i := startIdx; i < boardSize; i++ { if ... { emptyIdx = i; break } }":
\* the first empty index from i on, or -1 when there is none
FindEmpty(cells, guesses, i) ==
  LET found == {k \in i..(boardSize - 1) : IsEmpty(cells, guesses, k)}
  IN IF found = {} THEN -1
     ELSE CHOOSE k \in found : \A j \in found : k <= j

CanPlaceIgnoringCol(rows, cols, squares, row, col, squareIdx, bit) ==
  /\ BitClear(rows[row], bit)
  /\ BitClear(squares[squareIdx], bit)

\* the three-mask test of lines 215-217
CanPlace(rows, cols, squares, row, col, squareIdx, bit) ==
  /\ BitClear(rows[row], bit)
  /\ BitClear(cols[col], bit)
  /\ BitClear(squares[squareIdx], bit)

InLoopShort(num) == num < 9

\* loop condition "num <= 9"
InLoop(num) == num <= 9

NextNumStuck(num) == num

\* loop step "num++"
NextNum(num) == num + 1

Top == stack[Len(stack)]
Pop == SubSeq(stack, 1, Len(stack) - 1)
SetTop(f) == [stack EXCEPT ![Len(stack)] = f]

Snapshot == [Guesses |-> Guesses, RowsUsed |-> RowsUsed,
             ColsUsed |-> ColsUsed, SquaresUsed |-> SquaresUsed]

\* lines 195-205: no empty cell from startIdx on: return true
BaseCase ==
  /\ pc = "call"
  /\ FindEmpty(Cells, Guesses, startIdx) = -1
  /\ result' = TRUE
  /\ pc' = "ret"
  /\ tally' = [tally EXCEPT !.calls = @ + 1]
  /\ last' = "base"
  /\ UNCHANGED << logging, input, built, ctor, board, masks, warnings, stack, startIdx >>

\* lines 195-211: an empty cell is found; its locals are set and the loop starts
BeginLoop ==
  /\ pc = "call"
  /\ LET emptyIdx == FindEmpty(Cells, Guesses, startIdx)
     IN /\ emptyIdx # -1
        /\ LET row == emptyIdx \div rowLength
               col == emptyIdx % colLength
           IN stack' = Append(stack, [emptyIdx  |-> emptyIdx,
                                      row       |-> row,
                                      col       |-> col,
                                      squareIdx |-> SquareOf(row, col),
                                      num       |-> 1,
                                      pre       |-> Snapshot])
  /\ pc' = "loop"
  /\ tally' = [tally EXCEPT !.calls = @ + 1]
  /\ last' = "begin"
  /\ UNCHANGED << logging, input, built, ctor, board, masks, warnings, startIdx, result >>

\* lines 211-217: the digit's bit is set in one of the masks: next digit
Skip ==
  /\ pc = "loop"
  /\ InLoop(Top.num)
  /\ ~CanPlace(RowsUsed, ColsUsed, SquaresUsed, Top.row, Top.col, Top.squareIdx, Bit(Top.num))
  /\ stack' = SetTop([Top EXCEPT !.num = NextNum(@)])
  /\ last' = "skip"
  /\ UNCHANGED << logging, input, built, ctor, tally, board, masks, warnings, startIdx, result, pc >>

\* lines 211-226: the digit is placed and the recursive call is made
Place ==
  /\ pc = "loop"
  /\ InLoop(Top.num)
  /\ LET bit == Bit(Top.num)
     IN /\ CanPlace(RowsUsed, ColsUsed, SquaresUsed, Top.row, Top.col, Top.squareIdx, bit)
        /\ Guesses' = [Guesses EXCEPT ![Top.emptyIdx] = Top.num]
        /\ RowsUsed' = [RowsUsed EXCEPT ![Top.row] = SetBit(@, bit)]
        /\ ColsUsed' = [ColsUsed EXCEPT ![Top.col] = SetBit(@, bit)]
        /\ SquaresUsed' = [SquaresUsed EXCEPT ![Top.squareIdx] = SetBit(@, bit)]
  /\ stack' = SetTop([Top EXCEPT !.pre = Snapshot])
  /\ startIdx' = Top.emptyIdx + 1
  /\ pc' = "call"
  /\ tally' = [tally EXCEPT !.placed = @ + 1]
  /\ last' = "place"
  /\ UNCHANGED << logging, input, built, ctor, Cells, warnings, result >>

\* line 238: all digits tried: return false
Exhausted ==
  /\ pc = "loop"
  /\ ~InLoop(Top.num)
  /\ stack' = Pop
  /\ result' = FALSE
  /\ pc' = "ret"
  /\ last' = "exhausted"
  /\ UNCHANGED << logging, input, built, ctor, tally, board, masks, warnings, startIdx >>

\* a success return that takes its own placement back on the way out
PropagateTrueUndoes ==
  /\ pc = "ret"
  /\ stack # << >>
  /\ result = TRUE
  /\ LET bit == Bit(Top.num)
     IN /\ Guesses' = [Guesses EXCEPT ![Top.emptyIdx] = 0]
        /\ RowsUsed' = [RowsUsed EXCEPT ![Top.row] = ClearBit(@, bit)]
        /\ ColsUsed' = [ColsUsed EXCEPT ![Top.col] = ClearBit(@, bit)]
        /\ SquaresUsed' = [SquaresUsed EXCEPT ![Top.squareIdx] = ClearBit(@, bit)]
  /\ stack' = Pop
  /\ last' = "true"
  /\ UNCHANGED << logging, input, built, ctor, tally, Cells, warnings, startIdx, result, pc >>

\* lines 226-228: the recursive call returned true: return true
PropagateTrue ==
  /\ pc = "ret"
  /\ stack # << >>
  /\ result = TRUE
  /\ stack' = Pop
  /\ last' = "true"
  /\ UNCHANGED << logging, input, built, ctor, tally, board, masks, warnings, startIdx, result, pc >>

UndoKeepsGuess ==
  /\ pc = "ret"
  /\ stack # << >>
  /\ result = FALSE
  /\ LET bit == Bit(Top.num)
     IN /\ RowsUsed' = [RowsUsed EXCEPT ![Top.row] = ClearBit(@, bit)]
        /\ ColsUsed' = [ColsUsed EXCEPT ![Top.col] = ClearBit(@, bit)]
        /\ SquaresUsed' = [SquaresUsed EXCEPT ![Top.squareIdx] = ClearBit(@, bit)]
  /\ stack' = SetTop([Top EXCEPT !.num = NextNum(@)])
  /\ pc' = "loop"
  /\ tally' = [tally EXCEPT !.undone = @ + 1]
  /\ last' = "undo"
  /\ UNCHANGED << logging, input, built, ctor, Cells, Guesses, warnings, startIdx, result >>

\* lines 226-237: the recursive call returned false: undo, next digit
Undo ==
  /\ pc = "ret"
  /\ stack # << >>
  /\ result = FALSE
  /\ LET bit == Bit(Top.num)
     IN /\ Guesses' = [Guesses EXCEPT ![Top.emptyIdx] = 0]
        /\ RowsUsed' = [RowsUsed EXCEPT ![Top.row] = ClearBit(@, bit)]
        /\ ColsUsed' = [ColsUsed EXCEPT ![Top.col] = ClearBit(@, bit)]
        /\ SquaresUsed' = [SquaresUsed EXCEPT ![Top.squareIdx] = ClearBit(@, bit)]
  /\ stack' = SetTop([Top EXCEPT !.num = NextNum(@)])
  /\ pc' = "loop"
  /\ tally' = [tally EXCEPT !.undone = @ + 1]
  /\ last' = "undo"
  /\ UNCHANGED << logging, input, built, ctor, Cells, warnings, startIdx, result >>

\* the outermost call SolveBacktrack(state, 0) returns to main (line 372)
Finish ==
  /\ pc = "ret"
  /\ stack = << >>
  /\ pc' = "done"
  /\ last' = "finish"
  /\ UNCHANGED << logging, input, built, ctor, tally, board, masks, warnings, stack, startIdx, result >>

Next ==
  \/ NewSolverStateCell
  \/ NewSolverStateReturn
  \/ BaseCase
  \/ BeginLoop
  \/ Skip
  \/ Place
  \/ Exhausted
  \/ PropagateTrue
  \/ Undo
  \/ Finish

Spec == Init /\ [][Next]_vars

\* the run on the empty board
SpecEmpty == InitEmpty /\ [][Next]_vars

\* the search is sequential code: a step that can be taken is taken
FairSpec == Spec /\ WF_vars(Next)

(* ---------------- CSV logging (src/main.go:270-285, 316-339, 359-412) --- *)
\* the numbers of boards checked: one, and two counts above the channel capacity
BoardCounts == {1, MaxBoards - 1, MaxBoards}

\* lines 395-402: the row of board i, identified by its BoardIndex field
CsvRow(i) == i + 1

\* lines 359-402: "for i := range boards", one more board: it is solved and
\* its row is built
MainSolve ==
  /\ mainPc = "loop"
  /\ boardIdx < nBoards
  /\ mainPc' = "send"
  /\ UNCHANGED << solving, nBoards, boardIdx, csvLogChan, chanClosed, csvWg,
                  loggerPc, loggerRow, csvFile, sent, written >>

\* line 404: "csvLogChan <- csvRow" blocks while the buffer is full
MainSend ==
  /\ mainPc = "send"
  /\ Len(csvLogChan) < chanCap
  /\ csvLogChan' = Append(csvLogChan, CsvRow(boardIdx))
  /\ sent' = Append(sent, CsvRow(boardIdx))
  /\ boardIdx' = boardIdx + 1
  /\ mainPc' = "loop"
  /\ UNCHANGED << solving, nBoards, chanClosed, csvWg, loggerPc, loggerRow,
                  csvFile, written >>

\* lines 407-412 and 324-326: the loop is over, main returns and the deferred
\* function closes the channel
MainClose ==
  /\ mainPc = "loop"
  /\ boardIdx = nBoards
  /\ chanClosed' = TRUE
  /\ mainPc' = "wait"
  /\ UNCHANGED << solving, nBoards, boardIdx, csvLogChan, csvWg, loggerPc,
                  loggerRow, csvFile, sent, written >>

MainWaitSkipped ==
  /\ mainPc = "wait"
  /\ mainPc' = "closefile"
  /\ UNCHANGED << solving, nBoards, boardIdx, csvLogChan, chanClosed, csvWg,
                  loggerPc, loggerRow, csvFile, sent, written >>

\* line 329: csvWg.Wait() returns when the counter is zero
MainWait ==
  /\ mainPc = "wait"
  /\ csvWg = 0
  /\ mainPc' = "closefile"
  /\ UNCHANGED << solving, nBoards, boardIdx, csvLogChan, chanClosed, csvWg,
                  loggerPc, loggerRow, csvFile, sent, written >>

\* lines 333-338: csvFile.Close()
MainCloseFile ==
  /\ mainPc = "closefile"
  /\ csvFile' = "closed"
  /\ mainPc' = "exit"
  /\ UNCHANGED << solving, nBoards, boardIdx, csvLogChan, chanClosed, csvWg,
                  loggerPc, loggerRow, sent, written >>

\* line 274: "for row := range logChan" receives the oldest buffered row
LoggerReceive ==
  /\ loggerPc = "range"
  /\ csvLogChan # << >>
  /\ loggerRow' = Head(csvLogChan)
  /\ csvLogChan' = Tail(csvLogChan)
  /\ loggerPc' = "write"
  /\ UNCHANGED << solving, nBoards, boardIdx, mainPc, chanClosed, csvWg,
                  csvFile, sent, written >>

\* lines 275-282: csvWriter.Write(row) and Flush(); on a closed file the
\* write fails, the error is logged and the row is dropped
LoggerWrite ==
  /\ loggerPc = "write"
  /\ written' = IF csvFile = "open" THEN Append(written, loggerRow) ELSE written
  /\ loggerPc' = "range"
  /\ UNCHANGED << solving, nBoards, boardIdx, mainPc, csvLogChan, chanClosed,
                  csvWg, loggerRow, csvFile, sent >>

\* lines 274, 284 and 271: the channel is closed and drained, the range loop
\* ends and the deferred wg.Done() runs
LoggerExit ==
  /\ loggerPc = "range"
  /\ csvLogChan = << >>
  /\ chanClosed
  /\ loggerPc' = "done"
  /\ csvWg' = csvWg - 1
  /\ UNCHANGED << solving, nBoards, boardIdx, mainPc, csvLogChan, chanClosed,
                  loggerRow, csvFile, sent, written >>

MainNext == MainSolve \/ MainSend \/ MainClose \/ MainWait \/ MainCloseFile
LoggerNext == LoggerReceive \/ LoggerWrite \/ LoggerExit

NextCsv ==
  \/ MainSolve
  \/ MainSend
  \/ MainClose
  \/ MainWait
  \/ MainCloseFile
  \/ LoggerReceive
  \/ LoggerWrite
  \/ LoggerExit

\* main and the logger goroutine; each board's NewSolverState and
\* SolveBacktrack run inside MainSolve
InitCsv == StartOn({EmptyGrid}) /\ LoggerStarted(BoardCounts)

SpecCsv == InitCsv /\ [][NextCsv]_vars

\* the Go scheduler runs a goroutine that can take a step
FairSpecCsv == SpecCsv /\ WF_vars(MainNext) /\ WF_vars(LoggerNext)

(* ---------------- vocabulary of the properties ------------------------- *)
Cell == 0..(boardSize - 1)
Digit == 1..9

RowOf(i) == i \div rowLength
ColOf(i) == i % colLength
BoxOf(i) == SquareOf(RowOf(i), ColOf(i))

RowCells(u) == {u * 9 + k : k \in 0..8}
ColCells(u) == {k * 9 + u : k \in 0..8}
BoxCells(u) == {((u \div 3) * 3 + (k \div 3)) * 9 + (u % 3) * 3 + (k % 3) : k \in 0..8}
Units == {RowCells(u) : u \in 0..8} \cup {ColCells(u) : u \in 0..8}
           \cup {BoxCells(u) : u \in 0..8}

\* the effective grid: the clue where nonzero, else the guess
EffectiveAt(i) == IF Cells[i] # 0 THEN Cells[i] ELSE Guesses[i]
Effective == [i \in Cell |-> EffectiveAt(i)]

\* no empty cell, and every row, column and box holds each digit exactly once
ValidGrid(g) ==
  /\ \A i \in Cell : g[i] # 0
  /\ \A U \in Units : \A d \in Digit : Cardinality({i \in U : g[i] = d}) = 1

\* the cells that share a row, a column or a box with cell i
Peers(i) == (RowCells(RowOf(i)) \cup ColCells(ColOf(i)) \cup BoxCells(BoxOf(i))) \ {i}

\* some digit occurs twice in one row, column or box of the grid
HasDuplicate(g) ==
  \E i \in Cell : g[i] # 0 /\ \E j \in Peers(i) : g[j] = g[i]

\* All valid completions of the grid g: the grids that keep every filled cell
\* of g, fill its empty cells with digits and are valid.  A digit that a filled
\* cell of the same row, column or box already holds is left out when a cell is
\* filled, since no grid that extends such a choice is valid.
RECURSIVE Completions(_)
Completions(g) ==
  IF \A i \in Cell : g[i] # 0
  THEN IF ValidGrid(g) THEN {g} ELSE {}
  ELSE LET i == CHOOSE k \in Cell : g[k] = 0 /\ \A j \in 0..(k - 1) : g[j] # 0
           free == {d \in Digit : \A j \in Peers(i) : g[j] # d}
       IN UNION {Completions([g EXCEPT ![i] = d]) : d \in free}

\* a <= b in the lexicographic order of the values read over the clue-empty
\* cells in ascending index order
LexLeq(a, b) ==
  LET E == {i \in Cell : input[i] = 0}
  IN \/ \A i \in E : a[i] = b[i]
     \/ \E i \in E : a[i] < b[i] /\ \A j \in E : j < i => a[j] = b[j]

\* bit k of the mask is set
HasBit(mask, k) == (mask \div (2 ^ k)) % 2 = 1

\* the digits held by the cells of the set U
DigitsIn(U) == {EffectiveAt(i) : i \in U} \ {0}

\* the outermost SolveBacktrack(state, 0) has been called
InSearch == pc \in {"call", "loop", "ret", "done"}
Returned(b) == pc = "done" /\ result = b

(* ---------------- C1 --------------------------------------------------- *)
\* C1 (soundness): if SolveBacktrack(NewSolverState(board), 0) returns true,
\* the effective grid has no empty cell and every row, column and box holds
\* each digit 1..9 exactly once.
C1_Soundness == Returned(TRUE) => ValidGrid(Effective)

\* the same for the clue grids in which NewSolverState found no duplicate
C1_SoundOnConsistentClues ==
  (Returned(TRUE) /\ warnings = << >>) => ValidGrid(Effective)

(* ---------------- C2 --------------------------------------------------- *)
\* C2 (completeness): SolveBacktrack(NewSolverState(board), 0) returns false
\* only if the clue grid has no valid completion; whenever it has one, the
\* call returns true.
C2_Completeness ==
  /\ Returned(FALSE) => Completions(input) = {}
  /\ (pc = "done" /\ Completions(input) # {}) => result = TRUE

\* a search over a duplicate-free clue grid with empty cells that backtracked
\* and returned false
C2_Witness ==
  /\ Returned(FALSE)
  /\ warnings = << >>
  /\ tally.undone > 0

(* ---------------- C3 --------------------------------------------------- *)
\* C3 (first solution): when the call returns true, the guesses read over the
\* clue-empty cells in index order are a valid completion of the clue grid
\* and the lexicographically smallest of all its valid completions.
C3_FirstSolution ==
  Returned(TRUE) =>
    /\ Effective \in Completions(input)
    /\ \A g \in Completions(input) : LexLeq(Guesses, g)

\* the same for the clue grids in which NewSolverState found no duplicate
C3_FirstOnConsistentClues ==
  (Returned(TRUE) /\ warnings = << >>) =>
    /\ Effective \in Completions(input)
    /\ \A g \in Completions(input) : LexLeq(Guesses, g)

\* a solved grid that has several valid completions
C3_SeveralCompletions ==
  Returned(TRUE) /\ warnings = << >> /\ Cardinality(Completions(input)) > 1

(* ---------------- C4 --------------------------------------------------- *)
\* C4 (failure unwinding): when the outermost call returns false, every guess
\* is 0, Cells is the clue grid given at construction and the three masks are
\* the ones NewSolverState computed.
C4_FailureUnwinding ==
  Returned(FALSE) =>
    /\ \A i \in Cell : Guesses[i] = 0
    /\ Cells = input
    /\ masks = built

\* a failed search that placed and undid digits
C4_Witness == Returned(FALSE) /\ tally.placed > 1 /\ tally.undone > 1

(* ---------------- C5 --------------------------------------------------- *)
\* C5 (index/grid consistency): at every step of the search, bit d of
\* RowsUsed[r] is set iff some cell of row r holds digit d as a clue or a
\* guess, likewise for ColsUsed and SquaresUsed; no other bit is set.
C5_IndexMatchesGrid ==
  InSearch =>
    \A u \in 0..8 :
      /\ {k \in 0..15 : HasBit(RowsUsed[u], k)} = DigitsIn(RowCells(u))
      /\ {k \in 0..15 : HasBit(ColsUsed[u], k)} = DigitsIn(ColCells(u))
      /\ {k \in 0..15 : HasBit(SquaresUsed[u], k)} = DigitsIn(BoxCells(u))

\* the search is three invocations deep, right after an undo
C5_Witness ==
  /\ pc = "loop"
  /\ Len(stack) >= 3
  /\ tally.undone > 0
  /\ Top.num > 1
  /\ \E i \in Cell : Guesses[i] # 0

(* ---------------- C6 --------------------------------------------------- *)
\* the clue grid has two equal clues in one row, column or box
DuplicateClues == HasDuplicate(input)

\* C6 as stated (legality invariant): in every state reachable during
\* SolveBacktrack, any two distinct filled cells (clue or guess) that share a
\* row, a column or a box hold different digits.
C6_Legality ==
  InSearch =>
    \A i \in Cell : EffectiveAt(i) # 0 =>
      \A j \in Peers(i) : EffectiveAt(j) # EffectiveAt(i)

\* C6 as amended: in every state reachable during SolveBacktrack, every guess
\* differs from every other filled cell (clue or guess) of its row, column
\* and box; when the clue grid has no duplicate, any two distinct filled
\* cells that share a unit differ.
C6_LegalityOfGuesses ==
  InSearch =>
    /\ \A i \in Cell : Guesses[i] # 0 =>
         \A j \in Peers(i) : EffectiveAt(j) # Guesses[i]
    /\ ~DuplicateClues =>
         \A i \in Cell : EffectiveAt(i) # 0 =>
           \A j \in Peers(i) : EffectiveAt(j) # EffectiveAt(i)

\* a digit has just been placed, several guesses stand, the clues hold a duplicate
C6_Witness ==
  /\ last = "place"
  /\ DuplicateClues
  /\ Cardinality({i \in Cell : Guesses[i] # 0}) >= 3

(* ---------------- C7 --------------------------------------------------- *)
\* C7 (inconsistent clues make the solve fail): for every clue grid in which
\* a digit occurs twice in one row, column or box, NewSolverState reports the
\* duplicate and SolveBacktrack(state, 0) returns false.
C7_InconsistentCluesFail ==
  (pc = "done" /\ HasDuplicate(input)) => (warnings # << >> /\ result = FALSE)

\* the part of C7 that the code meets: the duplicate is always reported
C7_DuplicateReported ==
  (InSearch /\ HasDuplicate(input)) => warnings # << >>

(* ---------------- C8 --------------------------------------------------- *)
\* C8 (totality): for every clue grid, SolveBacktrack(NewSolverState(board), 0)
\* terminates, returning true or false.
C8_Totality == <>(pc = "done" /\ result \in BOOLEAN)

\* a search that backtracked has returned
C8_Witness == pc = "done" /\ tally.undone > 2 /\ tally.placed > 5

(* ---------------- C9 --------------------------------------------------- *)
\* C9 (conservation): when the recursive call made after a trial placement
\* returns false, the undo step leaves Guesses and the three masks equal to
\* their values immediately before that placement.
C9_Conservation ==
  [][(pc = "ret" /\ stack # << >> /\ result = FALSE) =>
       /\ Guesses' = Top.pre.Guesses
       /\ RowsUsed' = Top.pre.RowsUsed
       /\ ColsUsed' = Top.pre.ColsUsed
       /\ SquaresUsed' = Top.pre.SquaresUsed]_vars

\* an undo has just been made by an invocation that is not the outermost one,
\* of a placement below which further digits had been placed
C9_Witness ==
  /\ last = "undo"
  /\ Len(stack) >= 2
  /\ tally.placed - tally.undone < tally.placed - 1
  /\ Snapshot = Top.pre

(* ---------------- C10 -------------------------------------------------- *)
\* C10 (clues immutable, disjoint from fill): no step writes Board.Cells,
\* Guesses[i] is only written where Cells[i] = 0, and in every reachable
\* state no cell has both a nonzero clue and a nonzero guess.
C10_CluesImmutable ==
  /\ [](\A i \in Cell : Cells[i] = 0 \/ Guesses[i] = 0)
  /\ [][/\ Cells' = Cells
        /\ \A i \in Cell : Guesses'[i] # Guesses[i] => Cells[i] = 0]_vars

\* a digit has just been placed in an empty cell that lies between two clues
C10_Witness ==
  /\ last = "place"
  /\ \E i \in 1..(boardSize - 2) :
       /\ Guesses[i] # 0
       /\ Cells[i - 1] # 0
       /\ Cells[i + 1] # 0

(* ---------------- C11 -------------------------------------------------- *)
\* the digits the clue grid has in the cells U
ClueDigitsIn(U) == {input[i] : i \in U} \ {0}

\* the clue of cell (ctor.r, ctor.c) is already in one of its three masks
ClueIsDuplicate ==
  LET num == Cells[ctor.r * rowLength + ctor.c]
  IN /\ num # 0
     /\ \/ HasBit(RowsUsed[ctor.r], num)
        \/ HasBit(ColsUsed[ctor.c], num)
        \/ HasBit(SquaresUsed[SquareOf(ctor.r, ctor.c)], num)

\* C11 (construction with duplicate clues): a step of NewSolverState on a
\* clue whose bit is already set in its row, column or box mask logs exactly
\* one warning, still sets the bit in all three masks and goes on to the next
\* cell (a step on any other cell logs nothing); and the masks NewSolverState
\* returns hold, per row, column and box, exactly the clue digits of that unit.
C11_ConstructionWithDuplicates ==
  /\ [](InSearch =>
          \A u \in 0..8 :
            /\ {k \in 0..15 : HasBit(built[1][u], k)} = ClueDigitsIn(RowCells(u))
            /\ {k \in 0..15 : HasBit(built[2][u], k)} = ClueDigitsIn(ColCells(u))
            /\ {k \in 0..15 : HasBit(built[3][u], k)} = ClueDigitsIn(BoxCells(u)))
  /\ [][(pc = "new" /\ ctor.r < 9) =>
          LET r == ctor.r
              c == ctor.c
              num == Cells[r * rowLength + c]
          IN /\ num # 0 => /\ HasBit(RowsUsed'[r], num)
                           /\ HasBit(ColsUsed'[c], num)
                           /\ HasBit(SquaresUsed'[SquareOf(r, c)], num)
             /\ Len(warnings') = Len(warnings) + (IF ClueIsDuplicate THEN 1 ELSE 0)
             /\ ClueIsDuplicate =>
                  warnings'[Len(warnings')] = [number |-> num, row |-> r, col |-> c]
             /\ pc' = "new"
             /\ ctor'.r * 9 + ctor'.c = r * 9 + c + 1
             /\ board' = board]_vars

\* NewSolverState has returned after warning about a duplicate clue
C11_Witness ==
  /\ pc = "call"
  /\ last = "newreturn"
  /\ warnings # << >>
  /\ DuplicateClues

(* ---------------- C12 -------------------------------------------------- *)
\* the clue grid has no empty cell and is a valid Sudoku grid
AlreadySolved == ValidGrid(input)

\* C12 (already-solved grid): for a clue grid without empty cell that is a
\* valid Sudoku grid, SolveBacktrack(state, 0) returns true from its first
\* invocation: it is the only invocation made, nothing is placed or undone,
\* and Guesses and the three mask arrays are as NewSolverState left them.
C12_AlreadySolved ==
  (AlreadySolved /\ pc \in {"ret", "done"}) =>
    /\ result = TRUE
    /\ tally = [calls |-> 1, placed |-> 0, undone |-> 0]
    /\ last \in {"base", "finish"}
    /\ \A i \in Cell : Guesses[i] = 0
    /\ masks = built
    /\ stack = << >>

\* the search has returned on a complete valid clue grid other than the base grid
C12_Witness ==
  /\ AlreadySolved
  /\ input \in SolvedGrids
  /\ pc = "done"
  /\ last = "finish"

(* ---------------- C14 -------------------------------------------------- *)
\* the SolveBacktrack invocations on the call stack: those that found an empty
\* cell and are in their digit loop or waiting for a callee, and the one
\* being entered
ActiveInvocations == Len(stack) + (IF pc = "call" THEN 1 ELSE 0)

\* the number of empty cells of the clue grid
EmptyClueCells == Cardinality({i \in Cell : input[i] = 0})

\* C14 (recursion depth bound), as stated: at every point of a run started
\* with SolveBacktrack(state, 0), the number of active invocations is at most
\* the number of empty cells of the clue grid.
C14_DepthBound == ActiveInvocations <= EmptyClueCells

\* C14, amended: at every point of the run the number of active invocations
\* is at most the number of empty cells of the clue grid plus one (and so at
\* most 82): the invocations that found an empty cell hold pairwise different
\* empty cells of the clue grid, and one more invocation may be scanning.
C14_DepthBoundPlusOne ==
  /\ ActiveInvocations <= EmptyClueCells + 1
  /\ ActiveInvocations <= boardSize + 1
  /\ Len(stack) <= EmptyClueCells
  /\ \A j \in 1..Len(stack) :
       /\ input[stack[j].emptyIdx] = 0
       /\ \A k \in 1..Len(stack) : stack[j].emptyIdx = stack[k].emptyIdx => j = k

\* every empty cell has its invocation and the base-case invocation is entered
C14_Witness ==
  /\ pc = "call"
  /\ EmptyClueCells >= 3
  /\ Len(stack) = EmptyClueCells
  /\ ActiveInvocations = EmptyClueCells + 1
  /\ tally.undone > 0

(* ---------------- C15 -------------------------------------------------- *)
\* g up to cell i - 1, digit d in cell i, the cells after it empty
PrefixWith(g, i, d) ==
  [j \in Cell |-> IF j < i THEN g[j] ELSE IF j = i THEN d ELSE 0]

\* g is the first complete valid grid in the order "cells in ascending index
\* order, digits in ascending order": no smaller digit in any cell, the cells
\* before it kept, can be extended to a valid grid
FirstInOrder(g) ==
  \A i \in Cell : \A d \in 1..(g[i] - 1) :
    \/ \E j \in Peers(i) : j < i /\ g[j] = d
    \/ Completions(PrefixWith(g, i, d)) = {}

\* C15 (empty-grid scenario): on the clue grid with all 81 cells empty,
\* SolveBacktrack(NewSolverState(board), 0) returns true, and Guesses is a
\* complete valid Sudoku grid: the first one in the order of ascending cell
\* index and ascending digit, which is the grid 123456789 456789123 ...;
\* on the way there no row, column or box ever holds a digit twice.
C15_EmptyGrid ==
  /\ ~HasDuplicate(Guesses)
  /\ pc = "done" =>
       /\ input = EmptyGrid
       /\ result = TRUE
       /\ ValidGrid(Guesses)
       /\ FirstInOrder(Guesses)
       /\ \A i \in Cell : Guesses[i] = BaseGrid[i + 1]

\* the search on the empty board has returned after backtracking
C15_Witness ==
  /\ pc = "done"
  /\ input = EmptyGrid
  /\ tally.placed - tally.undone = boardSize
  /\ tally.undone > 0

(* ---------------- C16 -------------------------------------------------- *)
\* the SolverState the engine works on
CurrentState ==
  [RowsUsed |-> RowsUsed, ColsUsed |-> ColsUsed, SquaresUsed |-> SquaresUsed]

\* C16 (pruning and guarded placement): at a search node about to try digit
\* num, if IsValid(Guess{row, col, num}) is false the digit is skipped: no
\* invocation is made and Guesses and the masks stay as they are; if it is
\* true the digit is placed.  Every guess written anywhere satisfied IsValid
\* for its cell in the state right before the write, and at every node the
\* inline three-mask test agrees with IsValid for all digits 1..9.
C16_PruningAndGuardedPlacement ==
  /\ [](pc = "loop" =>
          \A d \in Digit :
            CanPlace(RowsUsed, ColsUsed, SquaresUsed,
                     Top.row, Top.col, Top.squareIdx, Bit(d))
              <=> IsValid(CurrentState, [Row |-> Top.row, Col |-> Top.col, Value |-> d]))
  /\ [][(pc = "loop" /\ Top.num \in Digit) =>
          IF IsValid(CurrentState, [Row |-> Top.row, Col |-> Top.col, Value |-> Top.num])
          THEN /\ Guesses'[Top.emptyIdx] = Top.num
               /\ pc' = "call"
          ELSE /\ Guesses' = Guesses
               /\ masks' = masks
               /\ pc' = "loop"
               /\ tally' = tally
               /\ Len(stack') = Len(stack)
               /\ stack'[Len(stack)].num = Top.num + 1]_vars
  /\ [][\A i \in Cell :
          (Guesses'[i] # Guesses[i] /\ Guesses'[i] # 0) =>
            IsValid(CurrentState,
                    [Row |-> RowOf(i), Col |-> ColOf(i), Value |-> Guesses'[i]])]_vars

\* a digit has just been skipped at a node below an earlier placement
C16_Witness ==
  /\ pc = "loop"
  /\ last = "skip"
  /\ Len(stack) >= 2
  /\ tally.placed >= 2

(* ---------------- C17 -------------------------------------------------- *)
\* C17 (success short-circuit): the result is true only from the base case
\* on; from the moment an invocation has returned true, every step is the
\* return of true by the next enclosing invocation (or the return to main):
\* no further digit is tried, nothing is placed or undone, no invocation is
\* made, and Guesses and the masks never change again, so that at the
\* outermost return they are what they were when the base case was reached.
C17_SuccessShortCircuit ==
  /\ [](result = TRUE => pc \in {"ret", "done"})
  /\ [][result' = TRUE /\ result = FALSE =>
          last' = "base" /\ board' = board /\ masks' = masks]_vars
  /\ [][result = TRUE =>
          /\ result' = TRUE
          /\ Guesses' = Guesses
          /\ masks' = masks
          /\ tally' = tally
          /\ pc' \in {"ret", "done"}
          /\ \/ stack # << >> /\ stack' = Pop /\ pc' = "ret" /\ last' = "true"
             \/ stack = << >> /\ stack' = stack /\ pc' = "done" /\ last' = "finish"]_vars

\* true is on its way up through enclosing invocations after a search that
\* backtracked
C17_Witness ==
  /\ pc = "ret"
  /\ result = TRUE
  /\ last = "true"
  /\ Len(stack) >= 2
  /\ tally.undone > 0

(* ---------------- C18 -------------------------------------------------- *)
\* the cells that hold a guess, and the empty cells of the clue grid
Guessed == {i \in Cell : Guesses[i] # 0}
ClueEmpty == {i \in Cell : input[i] = 0}

\* C18 (prefix invariant): throughout the search the cells holding a guess
\* are the first so many empty cells of the clue grid in index order; on
\* entry to an invocation SolveBacktrack(state, k) every cell below k is
\* filled (clue or guess), every empty cell of the clue grid from k on has
\* no guess, the guesses are one per enclosing invocation, each in the cell
\* that invocation found, and the scan from k finds the same cell as a scan
\* from 0.
C18_PrefixInvariant ==
  /\ InSearch =>
       /\ Guessed \subseteq ClueEmpty
       /\ \A i \in Guessed : \A k \in ClueEmpty : k < i => k \in Guessed
  /\ pc = "call" =>
       /\ \A i \in Cell : i < startIdx => EffectiveAt(i) # 0
       /\ \A i \in ClueEmpty : i >= startIdx => Guesses[i] = 0
       /\ Guessed = {stack[j].emptyIdx : j \in 1..Len(stack)}
       /\ Cardinality(Guessed) = Len(stack)
       /\ FindEmpty(Cells, Guesses, startIdx) = FindEmpty(Cells, Guesses, 0)

\* an invocation is entered after an undo, below two others, and its scan
\* has clue cells to pass before the next empty cell
C18_Witness ==
  /\ pc = "call"
  /\ Len(stack) >= 2
  /\ tally.undone > 0
  /\ FindEmpty(Cells, Guesses, startIdx) > startIdx

(* ---------------- C19 -------------------------------------------------- *)
\* C19 (CSV logger hand-off): main sends one row per board, in board order;
\* the rows written, the row the goroutine holds and the rows buffered make
\* up, in this order, the rows sent, so rows are written in the order sent
\* and none is lost; the buffer never holds more than its capacity; the CSV
\* file is closed only after the channel has been closed and the goroutine
\* has written every sent row and finished; every send of main completes,
\* and main, its loop run to completion, ends with the file closed.
C19_LoggerHandOff ==
  /\ [](/\ Len(sent) = boardIdx
        /\ \A k \in 1..Len(sent) : sent[k] = k)
  /\ [](sent = written \o (IF loggerPc = "write" THEN << loggerRow >> ELSE << >>)
                        \o csvLogChan)
  /\ [](Len(csvLogChan) <= chanCap)
  /\ [](csvFile = "closed" =>
          /\ chanClosed
          /\ loggerPc = "done"
          /\ csvWg = 0
          /\ written = sent
          /\ Len(written) = nBoards)
  /\ (mainPc = "send") ~> (mainPc = "loop")
  /\ <>(mainPc = "exit" /\ csvFile = "closed")

\* main is blocked in its send on a full channel while the goroutine writes
C19_Witness ==
  /\ mainPc = "send"
  /\ Len(csvLogChan) = chanCap
  /\ loggerPc = "write"
  /\ Len(written) >= 1

====
